---- MODULE Spec2Model ----
(***************************************************************************)
(* NewsService of geralexgit/news-ai: the ordered provider fallback of     *)
(* getLatestNews (Perplexity, then NewsAPI, then mock news) and the        *)
(* free-text parser parseNewsResponse with its regular expressions.        *)
(*                                                                         *)
(* A JavaScript string is a sequence of one-character strings, so that     *)
(* split, trim, substring and the regular expressions are computed on the  *)
(* characters.  The JavaScript value undefined is the one-element sequence *)
(* Undefined, whose element is not a character.                            *)
(***************************************************************************)
EXTENDS Integers, Sequences, FiniteSets, TLC

(***************************************************************************)
(* Characters and the string primitives of JavaScript the service uses.    *)
(***************************************************************************)
Undefined == <<"undefined">>

UpperSeq ==
    <<"A", "B", "C", "D", "E", "F", "G", "H", "I", "J", "K", "L", "M",
      "N", "O", "P", "Q", "R", "S", "T", "U", "V", "W", "X", "Y", "Z">>

LowerSeq ==
    <<"a", "b", "c", "d", "e", "f", "g", "h", "i", "j", "k", "l", "m",
      "n", "o", "p", "q", "r", "s", "t", "u", "v", "w", "x", "y", "z">>

DigitSeq == <<"0", "1", "2", "3", "4", "5", "6", "7", "8", "9">>

Range(s) == {s[i] : i \in 1..Len(s)}

\* [A-Z], [a-z], \d, \s and \w of the regular expressions
Upper == Range(UpperSeq)
Lower == Range(LowerSeq)
Digits == Range(DigitSeq)
Letters == Upper \cup Lower
WhiteSpace == {" ", "\t", "\n", "\r"}
WordChars == Letters \cup Digits \cup {"_"}

\* the character class [•\-\*]; "U+2022" stands for the one character •
BulletGlyphs == {"U+2022", "-", "*"}

SetMin(S) == CHOOSE x \in S : \A y \in S : x <= y
SetMax(S) == CHOOSE x \in S : \A y \in S : x >= y

\* String.prototype.toLowerCase on one character (the i flag of a regex)
ToLower(c) ==
    IF c \in Upper THEN LowerSeq[CHOOSE i \in 1..26 : UpperSeq[i] = c] ELSE c

\* String.prototype.substring(from, to) with 0-based from, exclusive to
Substring(s, from, to) ==
    SubSeq(s, from + 1, IF to < Len(s) THEN to ELSE Len(s))

\* String.prototype.trim
Trim(s) ==
    LET keep == {i \in 1..Len(s) : s[i] \notin WhiteSpace}
    IN  IF keep = {} THEN <<>> ELSE SubSeq(s, SetMin(keep), SetMax(keep))

\* s without its leading run of white space from position p on (\s* at p)
SkipSpaces(s, p) ==
    LET keep == {i \in p..Len(s) : s[i] \notin WhiteSpace}
    IN  IF keep = {} THEN Len(s) + 1 ELSE SetMin(keep)

\* String.prototype.split('\n')
RECURSIVE SplitFrom(_, _)
SplitFrom(s, start) ==
    LET nl == {i \in start..Len(s) : s[i] = "\n"}
    IN  IF nl = {} THEN <<SubSeq(s, start, Len(s))>>
        ELSE <<SubSeq(s, start, SetMin(nl) - 1)>> \o SplitFrom(s, SetMin(nl) + 1)

SplitLines(s) == SplitFrom(s, 1)

\* String(x) as string concatenation applies it: undefined + '...'
JsString(x) ==
    IF x = Undefined
    THEN <<"u", "n", "d", "e", "f", "i", "n", "e", "d">>
    ELSE x

\* truthiness of a string-or-undefined value
Truthy(x) == x # Undefined /\ x # <<>>

\* the word w occurs in s at position p, compared case-insensitively
MatchesAt(s, p, w) ==
    /\ p >= 1
    /\ p + Len(w) - 1 <= Len(s)
    /\ \A k \in 1..Len(w) : ToLower(s[p + k - 1]) = w[k]

\* Date.prototype.toISOString of the instant t: the decimal digits of t
RECURSIVE Decimal(_)
Decimal(n) ==
    IF n < 10 THEN <<DigitSeq[n + 1]>>
    ELSE Decimal(n \div 10) \o <<DigitSeq[(n % 10) + 1]>>

toISOString(t) == <<"T">> \o Decimal(t)

(***************************************************************************)
(* NewsService: the heuristics of the free-text parser.                    *)
(***************************************************************************)

\* /^\d+\./ : the length of the leading digit run when a "." follows it, else 0
NumberPrefix(line) ==
    LET stop == {i \in 1..Len(line) : line[i] \notin Digits}
        k    == IF stop = {} THEN Len(line) ELSE SetMin(stop) - 1
    IN  IF k >= 1 /\ k < Len(line) /\ line[k + 1] = "." THEN k ELSE 0

\* /^[A-Z][^.]*:/
CapsColon(line) ==
    /\ Len(line) >= 2
    /\ line[1] \in Upper
    /\ \E j \in 2..Len(line) :
          /\ line[j] = ":"
          /\ \A k \in 2..(j - 1) : line[k] # "."

TitleMaxLen == 100

looksLikeTitle(line) ==
    \/ NumberPrefix(line) > 0
    \/ (Len(line) >= 1 /\ line[1] \in BulletGlyphs)
    \/ CapsColon(line)
    \/ /\ Len(line) < TitleMaxLen
       /\ Len(line) >= 1
       /\ line[1] \in Upper
       /\ line[Len(line)] # "."

\* .replace(/^\d+\.\s*/, '')
StripNumber(s) ==
    IF NumberPrefix(s) > 0
    THEN SubSeq(s, SkipSpaces(s, NumberPrefix(s) + 2), Len(s))
    ELSE s

\* .replace(/^[•\-\*]\s*/, '')
StripBullet(s) ==
    IF Len(s) >= 1 /\ s[1] \in BulletGlyphs
    THEN SubSeq(s, SkipSpaces(s, 2), Len(s))
    ELSE s

\* .replace(/\s*-\s*[^-]*$/, '') : cut at the white space before the last "-"
StripSource(s) ==
    LET hy == {i \in 1..Len(s) : s[i] = "-"}
    IN  IF hy = {} THEN s
        ELSE LET h     == SetMax(hy)
                 solid == {i \in 1..(h - 1) : s[i] \notin WhiteSpace}
                 cut   == IF solid = {} THEN 0 ELSE SetMax(solid)
             IN  SubSeq(s, 1, cut)

cleanTitle(title) == Trim(StripSource(StripBullet(StripNumber(title))))

SourceKeywords ==
    { <<"s", "o", "u", "r", "c", "e", ":">>, <<"v", "i", "a">>, <<"f", "r", "o", "m">> }

\* /(?:Source:|via|from)\s*([A-Za-z\s]+)$/i : the positions just after a keyword
\* from which only letters and white space (at least one) run to the end
KeywordTails(text) ==
    {q \in 1..Len(text) :
        /\ \E w \in SourceKeywords : MatchesAt(text, q - Len(w), w)
        /\ \A i \in q..Len(text) : text[i] \in Letters \cup WhiteSpace}

\* [A-Z][a-z]+(?:\s+[A-Z][a-z]+)* over the whole of r
CapitalizedWords(r) ==
    /\ Len(r) >= 2
    /\ r[1] \in Upper
    /\ r[Len(r)] \in Lower
    /\ \A i \in 1..Len(r) :
          \/ /\ r[i] \in Upper
             /\ (i = 1 \/ r[i - 1] \in WhiteSpace)
             /\ i < Len(r)
             /\ r[i + 1] \in Lower
          \/ /\ r[i] \in Lower
             /\ i > 1
             /\ r[i - 1] \in Letters
          \/ r[i] \in WhiteSpace

\* /-\s*([A-Z][a-z]+(?:\s+[A-Z][a-z]+)*)$/ : the positions of a "-" it matches at
DashTails(text) ==
    {p \in 1..Len(text) :
        /\ text[p] = "-"
        /\ CapitalizedWords(SubSeq(text, SkipSpaces(text, p + 1), Len(text)))}

extractSource(text) ==
    IF KeywordTails(text) # {}
    THEN Trim(SubSeq(text, SetMin(KeywordTails(text)), Len(text)))
    ELSE IF DashTails(text) # {}
    THEN Trim(SubSeq(text, SkipSpaces(text, SetMin(DashTails(text)) + 1), Len(text)))
    ELSE Undefined

DateWords ==
    { <<"t", "o", "d", "a", "y">>,
      <<"y", "e", "s", "t", "e", "r", "d", "a", "y">>,
      <<"t", "h", "i", "s", " ", "m", "o", "r", "n", "i", "n", "g">>,
      <<"t", "h", "i", "s", " ", "a", "f", "t", "e", "r", "n", "o", "o", "n">>,
      <<"e", "a", "r", "l", "i", "e", "r", " ", "t", "o", "d", "a", "y">> }

\* /\b(?:today|yesterday|this morning|this afternoon|earlier today)\b/i
HasDateWord(text) ==
    \E p \in 1..Len(text), w \in DateWords :
        /\ MatchesAt(text, p, w)
        /\ (p = 1 \/ text[p - 1] \notin WordChars)
        /\ (p + Len(w) > Len(text) \/ text[p + Len(w)] \notin WordChars)

extractDate(text, t) == IF HasDateWord(text) THEN toISOString(t) ELSE Undefined

(***************************************************************************)
(* NewsService.parseNewsResponse.  An article is a record of the five      *)
(* NewsArticle fields; a field the code leaves out is Undefined.           *)
(***************************************************************************)
NewsArticle(title, summary, url, source, publishedAt) ==
    [title |-> title, summary |-> summary, url |-> url,
     source |-> source, publishedAt |-> publishedAt]

\* let currentArticle: Partial<NewsArticle> = {}
EmptyArticle == NewsArticle(Undefined, Undefined, Undefined, Undefined, Undefined)

\* content.split('\n').filter(line => line.trim())
NonEmptyLines(content) ==
    SelectSeq(SplitLines(content), LAMBDA line : Trim(line) # <<>>)

\* a check of the title alone
CompleteTitleOnly(article) == Truthy(article.title)

\* currentArticle.title && currentArticle.summary
Complete(article) == Truthy(article.title) /\ Truthy(article.summary)

MinSummaryLine == 20

\* an iteration that collects every line after a title, whatever its length
ParseLineAnyLength(acc, line, t) ==
    LET trimmedLine == Trim(line)
        cur         == acc.current
    IN  IF looksLikeTitle(trimmedLine)
        THEN [articles |-> IF Complete(cur) THEN Append(acc.articles, cur)
                           ELSE acc.articles,
              current  |-> NewsArticle(cleanTitle(trimmedLine), <<>>, Undefined,
                                       extractSource(trimmedLine),
                                       extractDate(trimmedLine, t))]
        ELSE IF Truthy(cur.title)
        THEN [acc EXCEPT !.current.summary =
                  IF ~Truthy(cur.summary) THEN trimmedLine
                  ELSE cur.summary \o <<" ">> \o trimmedLine]
        ELSE acc

\* one iteration of the loop over the lines; acc is [articles, current]
ParseLine(acc, line, t) ==
    LET trimmedLine == Trim(line)
        cur         == acc.current
    IN  IF looksLikeTitle(trimmedLine)
        THEN [articles |-> IF Complete(cur) THEN Append(acc.articles, cur)
                           ELSE acc.articles,
              current  |-> NewsArticle(cleanTitle(trimmedLine), <<>>, Undefined,
                                       extractSource(trimmedLine),
                                       extractDate(trimmedLine, t))]
        ELSE IF Truthy(cur.title) /\ Len(trimmedLine) > MinSummaryLine
        THEN [acc EXCEPT !.current.summary =
                  IF ~Truthy(cur.summary) THEN trimmedLine
                  ELSE cur.summary \o <<" ">> \o trimmedLine]
        ELSE acc

RECURSIVE ParseLines(_, _, _, _)
ParseLines(acc, lines, i, t) ==
    IF i > Len(lines) THEN acc
    ELSE ParseLines(ParseLine(acc, lines[i], t), lines, i + 1, t)

\* the articles after the loop and the push of the last article
ParsedArticles(content, t) ==
    LET acc == ParseLines([articles |-> <<>>, current |-> EmptyArticle],
                          NonEmptyLines(content), 1, t)
    IN  IF Complete(acc.current) THEN Append(acc.articles, acc.current)
        ELSE acc.articles

FallbackTitle ==
    <<"L", "a", "t", "e", "s", "t", " ", "N", "e", "w", "s", " ",
      "S", "u", "m", "m", "a", "r", "y">>

Ellipsis == <<".", ".", ".">>

FallbackMaxLen == 500

\* the single article made when parsing found none
FallbackArticle(content, t) ==
    NewsArticle(FallbackTitle,
                Substring(Trim(content), 0, FallbackMaxLen)
                    \o (IF Len(content) > FallbackMaxLen THEN Ellipsis ELSE <<>>),
                Undefined, Undefined, toISOString(t))

MaxParsedArticles == 5

\* Array.prototype.slice(0, n)
Slice(seq, n) == SubSeq(seq, 1, IF n < Len(seq) THEN n ELSE Len(seq))

\* parseNewsResponse without the final slice(0, 5)
parseNewsResponseUncapped(content, t) ==
    LET parsed == ParsedArticles(content, t)
    IN  IF Len(parsed) = 0 /\ Trim(content) # <<>>
        THEN <<FallbackArticle(content, t)>>
        ELSE parsed

parseNewsResponse(content, t) ==
    LET parsed == ParsedArticles(content, t)
        all    == IF Len(parsed) = 0 /\ Trim(content) # <<>>
                  THEN <<FallbackArticle(content, t)>>
                  ELSE parsed
    IN  Slice(all, MaxParsedArticles)

(***************************************************************************)
(* NewsService: the state of one service object and of one getLatestNews   *)
(* call on it.  The three promises are those of getNewsFromPerplexity,     *)
(* getNewsFromNewsAPI and getLatestNews itself.                            *)
(***************************************************************************)
VARIABLES
    perplexityApiKey,     \* this.perplexityApiKey
    newsApiKey,           \* this.newsApiKey
    query,                \* the arguments of the call
    limit,
    perplexityCall,       \* promise of getNewsFromPerplexity(query, limit)
    newsApiCall,          \* promise of getNewsFromNewsAPI(query, limit)
    latestNews,           \* promise of getLatestNews(query, limit)
    requests,             \* the HTTP requests sent so far, in order
    inflight,             \* the providers with a request awaiting its response
    newsApiResponse,      \* response.data of the NewsAPI request, once received
    log,                  \* console.log / console.error records, in order
    now,                  \* the clock read by new Date()
    calledAt,             \* the clock when getLatestNews was called
    content,              \* the argument of a direct parseNewsResponse call
    articles,             \* and what that call returned
    parsed,
    perplexityResponse,   \* response.data of the Perplexity request, once received
    category,             \* the argument of getNewsByCategory
    categoryLimit,        \* its limit argument
    newsByCategory,       \* promise of getNewsByCategory(category, limit)
    calls,                \* the state of each of several concurrent calls
    message,              \* msg.text of the Telegram message being dispatched
    fetches               \* the news fetches its handlers started, in order

serviceVars == <<perplexityApiKey, newsApiKey>>
callVars == <<query, limit, perplexityCall, newsApiCall, latestNews, requests,
              inflight, newsApiResponse, log, calledAt, perplexityResponse>>
parseVars == <<content, articles, parsed>>
categoryVars == <<category, categoryLimit, newsByCategory>>
chatVars == <<message, fetches>>
otherVars == <<calls, chatVars>>
vars == <<serviceVars, callVars, parseVars, now, categoryVars, otherVars>>

\* bounds of the explored inputs
MaxLimit == 5
MaxArticles == 2
MaxTime == 2
MaxLines == 3
MaxItems == 6

NewsResponse(arts, q, timestamp) ==
    [articles |-> arts, query |-> q, timestamp |-> timestamp]

NoValue == NewsResponse(<<>>, Undefined, Undefined)

NotCalled == [state |-> "none", value |-> NoValue, reason |-> "none"]
Pending == [state |-> "pending", value |-> NoValue, reason |-> "none"]
Fulfilled(v) == [state |-> "fulfilled", value |-> v, reason |-> "none"]
Rejected(e) == [state |-> "rejected", value |-> NoValue, reason |-> e]

Request(provider, credential, q, l) ==
    [to |-> provider, credential |-> credential, query |-> q, limit |-> l]

SentTo(provider) == {i \in 1..Len(requests) : requests[i].to = provider}

MockTitlePrefix ==
    <<"L", "a", "t", "e", "s", "t", " ", "U", "p", "d", "a", "t", "e", "s", " ", "o",
      "n", " ">>

MockSummary1 ==
    <<"W", "e", " ", "a", "r", "e", " ", "c", "u", "r", "r", "e", "n", "t", "l", "y",
      " ", "e", "x", "p", "e", "r", "i", "e", "n", "c", "i", "n", "g", " ", "t", "e",
      "c", "h", "n", "i", "c", "a", "l", " ", "d", "i", "f", "f", "i", "c", "u", "l",
      "t", "i", "e", "s", " ", "w", "i", "t", "h", " ", "o", "u", "r", " ", "n", "e",
      "w", "s", " ", "s", "o", "u", "r", "c", "e", "s", ".", " ", "P", "l", "e", "a",
      "s", "e", " ", "t", "r", "y", " ", "a", "g", "a", "i", "n", " ", "l", "a", "t",
      "e", "r", " ", "f", "o", "r", " ", "t", "h", "e", " ", "m", "o", "s", "t", " ",
      "r", "e", "c", "e", "n", "t", " ", "u", "p", "d", "a", "t", "e", "s", ".">>

MockSource1 ==
    <<"N", "e", "w", "s", " ", "A", "I", " ", "B", "o", "t">>

MockTitle2 ==
    <<"S", "e", "r", "v", "i", "c", "e", " ", "N", "o", "t", "i", "c", "e">>

MockSummary2 ==
    <<"O", "u", "r", " ", "n", "e", "w", "s", " ", "s", "e", "r", "v", "i", "c", "e",
      " ", "i", "s", " ", "t", "e", "m", "p", "o", "r", "a", "r", "i", "l", "y", " ",
      "u", "n", "a", "v", "a", "i", "l", "a", "b", "l", "e", ".", " ", "W", "e", " ",
      "a", "r", "e", " ", "w", "o", "r", "k", "i", "n", "g", " ", "t", "o", " ", "r",
      "e", "s", "t", "o", "r", "e", " ", "f", "u", "l", "l", " ", "f", "u", "n", "c",
      "t", "i", "o", "n", "a", "l", "i", "t", "y", " ", "a", "s", " ", "s", "o", "o",
      "n", " ", "a", "s", " ", "p", "o", "s", "s", "i", "b", "l", "e", ".">>

MockSource2 ==
    <<"S", "y", "s", "t", "e", "m">>

\* getMockNews without the slice: both articles whatever the limit
getMockNewsUnsliced(q, l, t) ==
    NewsResponse(
        << NewsArticle(MockTitlePrefix \o q, MockSummary1, Undefined,
                       MockSource1, toISOString(t)),
           NewsArticle(MockTitle2, MockSummary2, Undefined,
                       MockSource2, toISOString(t)) >>,
        q, toISOString(t))

\* mockArticles.slice(0, limit) with the other two fields of the response
getMockNews(q, l, t) ==
    NewsResponse(
        Slice(<< NewsArticle(MockTitlePrefix \o q, MockSummary1, Undefined,
                             MockSource1, toISOString(t)),
                 NewsArticle(MockTitle2, MockSummary2, Undefined,
                             MockSource2, toISOString(t)) >>, l),
        q, toISOString(t))

NewsApiSummaryLen == 200

\* one element of response.data.articles.map(...)
NewsApiArticle(article) ==
    NewsArticle(article.title,
                IF Truthy(article.description) THEN article.description
                ELSE (IF article.content = Undefined THEN JsString(Undefined)
                      ELSE Substring(article.content, 0, NewsApiSummaryLen))
                     \o Ellipsis,
                article.url,
                article.sourceName,
                article.publishedAt)

MapArticles(raw) == [i \in 1..Len(raw) |-> NewsApiArticle(raw[i])]

\* getNewsFromNewsAPI without its credential check
NewsApiKeyNeverMissing == FALSE

\* if (!this.newsApiKey)
NewsApiKeyMissing == newsApiKey = ""

ErrKeyMissing == "NewsAPI key not available"

PerplexityErrorLog(err) ==
    [level |-> "error", message |-> "Perplexity API Error Details", errors |-> <<err>>]

FallbackLog ==
    [level |-> "log", message |-> "Perplexity failed, trying NewsAPI fallback...",
     errors |-> <<>>]

\* an inner catch that reports nothing of the two errors
BothFailedSilent(perplexityError, newsApiError) ==
    [level |-> "log", message |-> "Both APIs failed", errors |-> <<>>]

BothFailedLog(perplexityError, newsApiError) ==
    [level |-> "error", message |-> "Both APIs failed",
     errors |-> <<perplexityError, newsApiError>>]

\* an inner catch that rethrows instead of returning the mock news
BothFailedRethrows(q, l, t, newsApiError) == Rejected(newsApiError)

\* the inner catch of getLatestNews: what the call settles to
BothFailed(q, l, t, newsApiError) == Fulfilled(getMockNews(q, l, t))

(***************************************************************************)
(* What the two providers may answer.  The service does not control them:  *)
(* every answer is possible whatever the request carried.                  *)
(***************************************************************************)
\* texts a chat completion may carry
StormText ==
    <<"1", ".", " ", "S", "t", "o", "r", "m", " ", "H", "i", "t", "s", " ", "C", "i",
      "t", "y", "\n", "H", "e", "a", "v", "y", " ", "r", "a", "i", "n", " ", "c", "a",
      "u", "s", "e", "d", " ", "f", "l", "o", "o", "d", "i", "n", "g", " ", "a", "c",
      "r", "o", "s", "s", " ", "d", "o", "w", "n", "t", "o", "w", "n", ".", " ", "-",
      " ", "L", "o", "c", "a", "l", " ", "N", "e", "w", "s", "\n", "2", ".", " ", "M",
      "a", "r", "k", "e", "t", " ", "R", "a", "l", "l", "y", "\n", "S", "t", "o", "c",
      "k", "s", " ", "r", "o", "s", "e", " ", "s", "h", "a", "r", "p", "l", "y", " ",
      "t", "o", "d", "a", "y", ".">>

ProseText ==
    <<"m", "a", "r", "k", "e", "t", "s", " ", "w", "e", "r", "e", " ", "c", "a", "l",
      "m", " ", "a", "n", "d", " ", "n", "o", "t", "h", "i", "n", "g", " ", "e", "l",
      "s", "e", " ", "h", "a", "p", "p", "e", "n", "e", "d", " ", "a", "t", " ", "a",
      "l", "l", ".">>

BulletText ==
    <<"*", " ", "T", "e", "c", "h", ":", " ", "c", "h", "i", "p", "s", " ", "t", "o",
      "d", "a", "y", " ", "-", " ", "W", "i", "r", "e", "d", " ", "N", "e", "w", "s",
      "\n", "c", "h", "i", "p", " ", "m", "a", "k", "e", "r", "s", " ", "r", "e", "p",
      "o", "r", "t", "e", "d", " ", "r", "e", "c", "o", "r", "d", " ", "d", "e", "m",
      "a", "n", "d", " ", "t", "h", "i", "s", " ", "q", "u", "a", "r", "t", "e", "r",
      ".">>

ItemBody ==
    <<"t", "h", "i", "s", " ", "s", "t", "o", "r", "y", " ", "h", "a", "s", " ", "a",
      " ", "s", "u", "m", "m", "a", "r", "y", " ", "o", "f", " ", "m", "o", "r", "e",
      " ", "t", "h", "a", "n", " ", "t", "w", "e", "n", "t", "y", " ", "c", "h", "a",
      "r", "a", "c", "t", "e", "r", "s", ".">>

Queries == { <<"a", "i">>, <<"u", "k">> }

Limits == 1..MaxLimit

TransportErrors == {"NetworkError", "Status401", "Status500"}

\* "k. Item k" followed by a line of summary, for k = 1..n
RECURSIVE NumberedList(_)
NumberedList(n) ==
    IF n = 0 THEN <<>>
    ELSE (IF n = 1 THEN <<>> ELSE NumberedList(n - 1) \o <<"\n">>)
         \o Decimal(n) \o <<".", " ", "I", "t", "e", "m", " ">> \o Decimal(n)
         \o <<"\n">> \o ItemBody

ItemTitle(k) == <<"I", "t", "e", "m", " ">> \o Decimal(k)

ChatContents ==
    { <<>>, <<" ", "\n">>, StormText, ProseText, BulletText,
      NumberedList(MaxParsedArticles + 1) }

\* response.data of the chat completion: choices absent, empty, or one choice
\* whose message.content is a string or absent
PerplexityPayloads ==
    [choices : {"one"}, content : ChatContents \cup {Undefined}]
    \cup [choices : {"absent", "empty"}, content : {Undefined}]

RawArticle(title, description, body, url, sourceName, publishedAt) ==
    [title |-> title, description |-> description, content |-> body, url |-> url,
     sourceName |-> sourceName, publishedAt |-> publishedAt]

RawArticles ==
    { RawArticle(<<"A">>, <<"d", "a">>, <<"c", "a">>, <<"u", "a">>, <<"B", "B", "C">>,
                 <<"P", "1">>),
      RawArticle(<<"B">>, Undefined, [i \in 1..(NewsApiSummaryLen + 1) |-> "x"],
                 <<"u", "b">>, <<"A", "P">>, <<"P", "2">>),
      RawArticle(<<"C">>, Undefined, Undefined, Undefined, Undefined, Undefined) }

RECURSIVE SeqsUpTo(_, _)
SeqsUpTo(S, n) ==
    IF n = 0 THEN {<<>>}
    ELSE SeqsUpTo(S, n - 1) \cup
         {Append(s, x) : s \in {r \in SeqsUpTo(S, n - 1) : Len(r) = n - 1}, x \in S}

\* response.data of NewsAPI: articles absent, or a list of articles
NewsApiPayloads ==
    [hasArticles : {TRUE}, articles : SeqsUpTo(RawArticles, MaxArticles)]
    \cup {[hasArticles |-> FALSE, articles |-> <<>>]}

\* no Perplexity response has been received
NoCompletion == [choices |-> "none", content |-> Undefined]

NoResponse == [hasArticles |-> FALSE, articles |-> <<>>]

(***************************************************************************)
(* index.ts constructs the service from the environment and exits when     *)
(* neither key is set; "" is an unset or empty variable.                   *)
(***************************************************************************)
Constructed ==
    /\ perplexityApiKey \in {"", "pplx-key"}
    /\ newsApiKey \in {"", "news-key"}
    /\ ~(perplexityApiKey = "" /\ newsApiKey = "")

Idle ==
    /\ query = Undefined
    /\ limit = 0
    /\ perplexityCall = NotCalled
    /\ newsApiCall = NotCalled
    /\ latestNews = NotCalled
    /\ requests = <<>>
    /\ inflight = {}
    /\ newsApiResponse = NoResponse
    /\ log = <<>>
    /\ calledAt = 0
    /\ perplexityResponse = NoCompletion

\* getNewsByCategory has not been called
CategoryIdle ==
    /\ category = Undefined
    /\ categoryLimit = 0
    /\ newsByCategory = NotCalled

\* no concurrent calls are running
ConcIdle == calls = <<>>

\* no Telegram message is being handled
ChatIdle ==
    /\ message = Undefined
    /\ fetches = <<>>

Init ==
    /\ Constructed
    /\ Idle
    /\ CategoryIdle
    /\ ConcIdle
    /\ ChatIdle
    /\ now = 0
    /\ content = <<>>
    /\ articles = <<>>
    /\ parsed = FALSE

\* a getLatestNews that asks both providers at once
getLatestNewsRace(q, l) ==
    /\ latestNews.state = "none"
    /\ query' = q
    /\ limit' = l
    /\ calledAt' = now
    /\ latestNews' = Pending
    /\ perplexityCall' = Pending
    /\ newsApiCall' = Pending
    /\ requests' = requests \o << Request("perplexity", perplexityApiKey, q, l),
                                  Request("newsapi", newsApiKey, q, l) >>
    /\ inflight' = inflight \cup {"perplexity", "newsapi"}
    /\ UNCHANGED <<serviceVars, newsApiResponse, perplexityResponse, log, now,
                   parseVars, otherVars>>

\* getLatestNews up to the await of axios.post in getNewsFromPerplexity
getLatestNews(q, l) ==
    /\ latestNews.state = "none"
    /\ query' = q
    /\ limit' = l
    /\ calledAt' = now
    /\ latestNews' = Pending
    /\ perplexityCall' = Pending
    /\ requests' = Append(requests, Request("perplexity", perplexityApiKey, q, l))
    /\ inflight' = inflight \cup {"perplexity"}
    /\ UNCHANGED <<serviceVars, newsApiCall, newsApiResponse, perplexityResponse,
                   log, now, parseVars, otherVars>>

\* the catch of getNewsFromPerplexity, the outer catch of getLatestNews and
\* getNewsFromNewsAPI up to its await of axios.get
CatchPerplexityError(err) ==
    /\ perplexityCall' = Rejected(err)
    /\ IF NewsApiKeyMissing
       THEN /\ newsApiCall' = Rejected(ErrKeyMissing)
            /\ log' = log \o <<PerplexityErrorLog(err), FallbackLog,
                               BothFailedLog(err, ErrKeyMissing)>>
            /\ latestNews' = BothFailed(query, limit, now, ErrKeyMissing)
            /\ inflight' = inflight \ {"perplexity"}
            /\ UNCHANGED requests
       ELSE /\ newsApiCall' = Pending
            /\ log' = log \o <<PerplexityErrorLog(err), FallbackLog>>
            /\ requests' = Append(requests,
                                  Request("newsapi", newsApiKey, query, limit))
            /\ inflight' = (inflight \ {"perplexity"}) \cup {"newsapi"}
            /\ UNCHANGED latestNews
    /\ UNCHANGED <<serviceVars, query, limit, newsApiResponse, calledAt, now,
                   parseVars, categoryVars, otherVars>>

\* a getNewsFromPerplexity that throws when no article was parsed
PerplexityResolvedEmptyFails(data) ==
    /\ perplexityCall.state = "pending"
    /\ "perplexity" \in inflight
    /\ perplexityResponse' = data
    /\ LET text == IF Truthy(data.content) THEN data.content ELSE <<>>
           res  == NewsResponse(parseNewsResponse(text, now), query,
                                toISOString(now))
       IN  IF data.choices = "absent" \/ Len(res.articles) = 0
           THEN CatchPerplexityError("TypeError")
           ELSE /\ perplexityCall' = Fulfilled(res)
                /\ latestNews' = Fulfilled(res)
                /\ inflight' = inflight \ {"perplexity"}
                /\ UNCHANGED <<serviceVars, query, limit, newsApiCall, requests,
                               newsApiResponse, log, calledAt, now, parseVars,
                               categoryVars, otherVars>>

\* axios.post resolved: the rest of getNewsFromPerplexity
PerplexityResolved(data) ==
    /\ perplexityCall.state = "pending"
    /\ "perplexity" \in inflight
    /\ perplexityResponse' = data
    /\ IF data.choices = "absent"
       THEN CatchPerplexityError("TypeError")
       ELSE LET text == IF Truthy(data.content) THEN data.content ELSE <<>>
                res  == NewsResponse(parseNewsResponse(text, now), query,
                                     toISOString(now))
            IN  /\ perplexityCall' = Fulfilled(res)
                /\ latestNews' = Fulfilled(res)
                /\ inflight' = inflight \ {"perplexity"}
                /\ UNCHANGED <<serviceVars, query, limit, newsApiCall, requests,
                               newsApiResponse, log, calledAt, now, parseVars,
                               categoryVars, otherVars>>

\* axios.post rejected: a transport error or a non-2xx status
PerplexityRejected(err) ==
    /\ perplexityCall.state = "pending"
    /\ "perplexity" \in inflight
    /\ UNCHANGED perplexityResponse
    /\ CatchPerplexityError(err)

\* the inner catch of getLatestNews
CatchNewsApiError(err) ==
    /\ newsApiCall' = Rejected(err)
    /\ log' = Append(log, BothFailedLog(perplexityCall.reason, err))
    /\ latestNews' = BothFailed(query, limit, now, err)
    /\ inflight' = inflight \ {"newsapi"}
    /\ UNCHANGED <<serviceVars, query, limit, perplexityCall, requests, calledAt,
                   perplexityResponse, now, parseVars, categoryVars, otherVars>>

\* axios.get resolved: the rest of getNewsFromNewsAPI
NewsAPIResolved(data) ==
    /\ newsApiCall.state = "pending"
    /\ "newsapi" \in inflight
    /\ newsApiResponse' = data
    /\ IF ~data.hasArticles
       THEN CatchNewsApiError("TypeError")
       ELSE LET res == NewsResponse(MapArticles(data.articles), query,
                                    toISOString(now))
            IN  /\ newsApiCall' = Fulfilled(res)
                /\ latestNews' = Fulfilled(res)
                /\ inflight' = inflight \ {"newsapi"}
                /\ UNCHANGED <<serviceVars, query, limit, perplexityCall, requests,
                               log, calledAt, perplexityResponse, now, parseVars,
                               categoryVars, otherVars>>

\* axios.get rejected
NewsAPIRejected(err) ==
    /\ newsApiCall.state = "pending"
    /\ "newsapi" \in inflight
    /\ UNCHANGED newsApiResponse
    /\ CatchNewsApiError(err)

\* time passes while the call has not settled
Tick ==
    /\ latestNews.state \in {"none", "pending"}
    /\ now < MaxTime
    /\ now' = now + 1
    /\ UNCHANGED <<serviceVars, callVars, parseVars, categoryVars, otherVars>>

Next ==
    \/ \E q \in Queries, l \in Limits :
          getLatestNews(q, l) /\ UNCHANGED categoryVars
    \/ \E data \in PerplexityPayloads : PerplexityResolved(data)
    \/ \E err \in TransportErrors : PerplexityRejected(err)
    \/ \E data \in NewsApiPayloads : NewsAPIResolved(data)
    \/ \E err \in TransportErrors : NewsAPIRejected(err)
    \/ Tick

Spec == Init /\ [][Next]_vars

(***************************************************************************)
(* getNewsByCategory: a table of canned queries, a template for the labels *)
(* the table does not hold, and one call of getLatestNews.                 *)
(***************************************************************************)
\* String.prototype.toLowerCase
toLowerCase(s) == [i \in 1..Len(s) |-> ToLower(s[i])]

categoryQueries ==
    {
      [key   |-> <<"t", "e", "c", "h", "n", "o", "l", "o", "g", "y">>,
       query |-> <<"l", "a", "t", "e", "s", "t", " ", "t", "e", "c", "h", "n", "o", "l", "o", "g", "y", " ", "n", "e", "w", "s", " ", "t", "o", "d", "a", "y">>],
      [key   |-> <<"b", "u", "s", "i", "n", "e", "s", "s">>,
       query |-> <<"l", "a", "t", "e", "s", "t", " ", "b", "u", "s", "i", "n", "e", "s", "s", " ", "a", "n", "d", " ", "f", "i", "n", "a", "n", "c", "e", " ", "n", "e", "w", "s", " ", "t", "o", "d", "a", "y">>],
      [key   |-> <<"s", "p", "o", "r", "t", "s">>,
       query |-> <<"l", "a", "t", "e", "s", "t", " ", "s", "p", "o", "r", "t", "s", " ", "n", "e", "w", "s", " ", "t", "o", "d", "a", "y">>],
      [key   |-> <<"h", "e", "a", "l", "t", "h">>,
       query |-> <<"l", "a", "t", "e", "s", "t", " ", "h", "e", "a", "l", "t", "h", " ", "a", "n", "d", " ", "m", "e", "d", "i", "c", "a", "l", " ", "n", "e", "w", "s", " ", "t", "o", "d", "a", "y">>],
      [key   |-> <<"s", "c", "i", "e", "n", "c", "e">>,
       query |-> <<"l", "a", "t", "e", "s", "t", " ", "s", "c", "i", "e", "n", "c", "e", " ", "a", "n", "d", " ", "r", "e", "s", "e", "a", "r", "c", "h", " ", "n", "e", "w", "s", " ", "t", "o", "d", "a", "y">>],
      [key   |-> <<"p", "o", "l", "i", "t", "i", "c", "s">>,
       query |-> <<"l", "a", "t", "e", "s", "t", " ", "p", "o", "l", "i", "t", "i", "c", "a", "l", " ", "n", "e", "w", "s", " ", "t", "o", "d", "a", "y">>],
      [key   |-> <<"w", "o", "r", "l", "d">>,
       query |-> <<"l", "a", "t", "e", "s", "t", " ", "w", "o", "r", "l", "d", " ", "n", "e", "w", "s", " ", "t", "o", "d", "a", "y">>],
      [key   |-> <<"e", "n", "t", "e", "r", "t", "a", "i", "n", "m", "e", "n", "t">>,
       query |-> <<"l", "a", "t", "e", "s", "t", " ", "e", "n", "t", "e", "r", "t", "a", "i", "n", "m", "e", "n", "t", " ", "n", "e", "w", "s", " ", "t", "o", "d", "a", "y">>]
    }

\* the table is a plain object: a key it does not hold itself is looked up
\* on Object.prototype, where "constructor" finds the function Object
InheritedKeys == { <<"c", "o", "n", "s", "t", "r", "u", "c", "t", "o", "r">> }

ObjectConstructor == <<"function Object() { [native code] }">>

LatestWord ==
    <<"l", "a", "t", "e", "s", "t", " ">>

NewsTodayWords ==
    <<" ", "n", "e", "w", "s", " ", "t", "o", "d", "a", "y">>

\* `latest ${category} news today`
categoryTemplate(c) == LatestWord \o c \o NewsTodayWords

\* a getNewsByCategory without the table: the template for every label
categoryQueryTemplateOnly(c) == categoryTemplate(c)

\* categoryQueries[category.toLowerCase()] || `latest ${category} news today`
categoryQuery(c) ==
    LET key == toLowerCase(c)
        own == {e \in categoryQueries : e.key = key}
    IN  IF own # {}
        THEN (CHOOSE e \in own : TRUE).query
        ELSE IF key \in InheritedKeys
             THEN ObjectConstructor
             ELSE categoryTemplate(c)

\* the labels of the category commands of index.ts
newsCategories ==
    << <<"t", "e", "c", "h">>,
       <<"b", "u", "s", "i", "n", "e", "s", "s">>,
       <<"s", "p", "o", "r", "t", "s">>,
       <<"h", "e", "a", "l", "t", "h">>,
       <<"s", "c", "i", "e", "n", "c", "e">>,
       <<"p", "o", "l", "i", "t", "i", "c", "s">>,
       <<"w", "o", "r", "l", "d">>,
       <<"e", "n", "t", "e", "r", "t", "a", "i", "n", "m", "e", "n", "t">> >>

\* the table's own labels, two of them in other letter case, the labels of
\* the commands, a label nobody knows, the empty label and an inherited key
Categories ==
    {e.key : e \in categoryQueries}
    \cup Range(newsCategories)
    \cup { <<"S", "P", "O", "R", "T", "S">>,
           <<"B", "u", "s", "i", "n", "e", "s", "s">>,
           <<"w", "e", "a", "t", "h", "e", "r">>,
           <<>> }
    \cup InheritedKeys

CategoryLimits == {1, MaxLimit}

\* getNewsByCategory up to the await of axios.post
getNewsByCategory(c, l) ==
    /\ newsByCategory.state = "none"
    /\ category' = c
    /\ categoryLimit' = l
    /\ newsByCategory' = Pending
    /\ getLatestNews(categoryQuery(c), l)

\* the promise of getNewsByCategory settles as the promise it returned did
CategoryReturn ==
    /\ newsByCategory.state = "pending"
    /\ latestNews.state \in {"fulfilled", "rejected"}
    /\ newsByCategory' = latestNews
    /\ UNCHANGED <<serviceVars, callVars, parseVars, now, category, categoryLimit,
                   otherVars>>

NextCategory ==
    \/ \E c \in Categories, l \in CategoryLimits : getNewsByCategory(c, l)
    \/ \E data \in PerplexityPayloads : PerplexityResolved(data)
    \/ \E err \in TransportErrors : PerplexityRejected(err)
    \/ \E data \in NewsApiPayloads : NewsAPIResolved(data)
    \/ \E err \in TransportErrors : NewsAPIRejected(err)
    \/ CategoryReturn

SpecCategory == Init /\ [][NextCategory]_vars

(***************************************************************************)
(* Several calls of getLatestNews on one service, their awaits interleaved. *)
(* What a call keeps between its awaits are its parameters and the locals   *)
(* of its frames: one record per call.                                      *)
(***************************************************************************)
NumCalls == 2

CallIds == 1..NumCalls

\* the arguments of the concurrent calls: they differ in query and in limit
ConcArgs == { [query |-> <<"a", "i">>, limit |-> 1],
              [query |-> <<"u", "k">>, limit |-> MaxLimit] }

ConcErrors == {"NetworkError"}

ConcPerplexityPayloads ==
    { [choices |-> "one", content |-> BulletText],
      [choices |-> "one", content |-> Undefined],
      [choices |-> "absent", content |-> Undefined] }

ConcNewsApiPayloads ==
    {p \in NewsApiPayloads : Len(p.articles) = 0}
    \cup {[hasArticles |-> TRUE, articles |-> <<a>>] :
              a \in {r \in RawArticles : Truthy(r.description)}}

IdleCall ==
    [pc |-> "idle", query |-> Undefined, limit |-> 0,
     perplexityResponse |-> NoCompletion, perplexityError |-> "none",
     newsApiResponse |-> NoResponse, newsApiError |-> "none",
     latestNews |-> NotCalled]

\* a getLatestNews that reads the query from where another call has put it
queryShared(c) ==
    LET others == {d \in CallIds \ {c} : calls[d].pc # "idle"}
    IN  IF others = {} THEN calls[c].query
        ELSE calls[CHOOSE d \in others : TRUE].query

\* the parameter `query` of call c
queryOf(c) == calls[c].query

concFrame == <<serviceVars, callVars, parseVars, now, categoryVars, chatVars>>

\* call c of getLatestNews up to the await of axios.post
StartCall(c, q, l) ==
    /\ calls[c].pc = "idle"
    /\ calls' = [calls EXCEPT ![c] = [calls[c] EXCEPT !.pc = "perplexity", !.query = q,
                                                       !.limit = l,
                                                       !.latestNews = Pending]]
    /\ UNCHANGED concFrame

\* the catch of getNewsFromPerplexity, the outer catch of getLatestNews and
\* getNewsFromNewsAPI up to its await of axios.get, in call c
CallAfterPerplexityError(call, c) ==
    IF NewsApiKeyMissing
    THEN [call EXCEPT !.pc = "done", !.newsApiError = ErrKeyMissing,
                      !.latestNews = BothFailed(queryOf(c), call.limit, now,
                                                ErrKeyMissing)]
    ELSE [call EXCEPT !.pc = "newsapi"]

\* axios.post of call c resolved
CallPerplexityResolved(c, data) ==
    /\ calls[c].pc = "perplexity"
    /\ LET got == [calls[c] EXCEPT !.perplexityResponse = data]
       IN  calls' = [calls EXCEPT ![c] =
              IF data.choices = "absent"
              THEN CallAfterPerplexityError(got, c)
              ELSE LET text == IF Truthy(data.content) THEN data.content ELSE <<>>
                   IN  [got EXCEPT !.pc = "done",
                                   !.latestNews = Fulfilled(NewsResponse(
                                       parseNewsResponse(text, now), queryOf(c),
                                       toISOString(now)))]]
    /\ UNCHANGED concFrame

\* axios.post of call c rejected
CallPerplexityRejected(c, err) ==
    /\ calls[c].pc = "perplexity"
    /\ calls' = [calls EXCEPT ![c] =
          CallAfterPerplexityError([calls[c] EXCEPT !.perplexityError = err], c)]
    /\ UNCHANGED concFrame

\* axios.get of call c resolved
CallNewsAPIResolved(c, data) ==
    /\ calls[c].pc = "newsapi"
    /\ calls' = [calls EXCEPT ![c] =
          [calls[c] EXCEPT
              !.pc = "done",
              !.newsApiResponse = data,
              !.latestNews =
                  IF ~data.hasArticles
                  THEN BothFailed(queryOf(c), calls[c].limit, now, "TypeError")
                  ELSE Fulfilled(NewsResponse(MapArticles(data.articles),
                                              queryOf(c), toISOString(now)))]]
    /\ UNCHANGED concFrame

\* axios.get of call c rejected
CallNewsAPIRejected(c, err) ==
    /\ calls[c].pc = "newsapi"
    /\ calls' = [calls EXCEPT ![c] =
          [calls[c] EXCEPT
              !.pc = "done",
              !.newsApiError = err,
              !.latestNews = BothFailed(queryOf(c), calls[c].limit, now, err)]]
    /\ UNCHANGED concFrame

InitConc ==
    /\ Constructed
    /\ Idle
    /\ CategoryIdle
    /\ ChatIdle
    /\ now = 0
    /\ content = <<>>
    /\ articles = <<>>
    /\ parsed = FALSE
    /\ calls = [c \in CallIds |-> IdleCall]

NextConc ==
    \/ \E c \in CallIds, a \in ConcArgs : StartCall(c, a.query, a.limit)
    \/ \E c \in CallIds, data \in ConcPerplexityPayloads :
          CallPerplexityResolved(c, data)
    \/ \E c \in CallIds, err \in ConcErrors : CallPerplexityRejected(c, err)
    \/ \E c \in CallIds, data \in ConcNewsApiPayloads : CallNewsAPIResolved(c, data)
    \/ \E c \in CallIds, err \in ConcErrors : CallNewsAPIRejected(c, err)

SpecConc == InitConc /\ [][NextConc]_vars

(***************************************************************************)
(* index.ts: the handlers of a text message.  The bot emits 'message' for   *)
(* every message and then runs the callback of every onText pattern that    *)
(* matches the text; each handler reaches its fetch without an await.       *)
(***************************************************************************)
MaxTokens == 3

NewsCommand ==
    <<"/", "n", "e", "w", "s">>

DefaultQuery ==
    <<"l", "a", "t", "e", "s", "t", " ", "n", "e", "w", "s", " ", "t", "o", "d", "a",
      "y">>

MessageTokens ==
    { NewsCommand,
      <<"/", "t", "e", "c", "h">>,
      <<"/", "S", "p", "o", "r", "t", "s">>,
      <<"/", "s", "t", "a", "r", "t">>,
      <<"h", "i">>,
      <<"r", "a", "i", "n", " ", "t", "o", "d", "a", "y">>,
      <<" ">> }

RECURSIVE Flatten(_)
Flatten(ss) == IF Len(ss) = 0 THEN <<>> ELSE ss[1] \o Flatten(Tail(ss))

\* the texts a user may send: up to MaxTokens tokens, not empty
Messages == {Flatten(ts) : ts \in SeqsUpTo(MessageTokens, MaxTokens)} \ {<<>>}

\* String.prototype.startsWith
startsWith(s, w) == Len(s) >= Len(w) /\ SubSeq(s, 1, Len(w)) = w

\* RegExp.prototype.exec of a pattern that is a plain word, found anywhere
MatchesWord(text, w) ==
    \E p \in 1..(Len(text) - Len(w) + 1) : SubSeq(text, p, p + Len(w) - 1) = w

\* the same with the flag i
MatchesWordIgnoreCase(text, w) == MatchesWord(toLowerCase(text), toLowerCase(w))

Fetch(handler, method, arg, l) ==
    [handler |-> handler, method |-> method, arg |-> arg, limit |-> l]

MinQueryLen == 3

FreeTextLimit == 3

CommandLimit == 5

\* bot.on('message'): the fetch it starts, if any
MessageFetches(text) ==
    IF startsWith(text, <<"/">>) THEN <<>>
    ELSE IF Len(text) > MinQueryLen
         THEN << Fetch("message", "getLatestNews", text, FreeTextLimit) >>
         ELSE <<>>

\* bot.onText(/\/news/): the fetch it starts, if any
NewsFetches(text) ==
    IF MatchesWord(text, NewsCommand)
    THEN << Fetch("news", "getLatestNews", DefaultQuery, CommandLimit) >>
    ELSE <<>>

\* the fetches of the category handlers i, i + 1, ... in the order in which
\* newsCategories.forEach registered them
RECURSIVE CategoryFetches(_, _)
CategoryFetches(text, i) ==
    IF i > Len(newsCategories) THEN <<>>
    ELSE (IF MatchesWordIgnoreCase(text, <<"/">> \o newsCategories[i])
          THEN << Fetch("category", "getNewsByCategory", newsCategories[i],
                        CommandLimit) >>
          ELSE <<>>)
         \o CategoryFetches(text, i + 1)

\* one update with a text message: every handler it reaches, up to its await
processUpdate(text) ==
    /\ message = Undefined
    /\ message' = text
    /\ fetches' = MessageFetches(text) \o NewsFetches(text)
                      \o CategoryFetches(text, 1)
    /\ UNCHANGED <<serviceVars, callVars, parseVars, now, categoryVars, calls>>

NextChat == \E text \in Messages : processUpdate(text)

SpecChat == Init /\ [][NextChat]_vars

(***************************************************************************)
(* parseNewsResponse called on its own: the input texts and the call.      *)
(***************************************************************************)
LineNumbered ==
    <<"1", ".", " ", "S", "t", "o", "r", "m", " ", "H", "i", "t", "s", " ", "C", "i",
      "t", "y">>

LineSourced ==
    <<"H", "e", "a", "v", "y", " ", "r", "a", "i", "n", " ", "c", "a", "u", "s", "e",
      "d", " ", "f", "l", "o", "o", "d", "i", "n", "g", " ", "a", "c", "r", "o", "s",
      "s", " ", "d", "o", "w", "n", "t", "o", "w", "n", ".", " ", "-", " ", "L", "o",
      "c", "a", "l", " ", "N", "e", "w", "s">>

LineDated ==
    <<"S", "t", "o", "c", "k", "s", " ", "r", "o", "s", "e", " ", "s", "h", "a", "r",
      "p", "l", "y", " ", "t", "o", "d", "a", "y", ".">>

LineBulletOnly ==
    <<"-", " ">>

LineBullet ==
    <<"*", " ", "T", "e", "c", "h", ":", " ", "c", "h", "i", "p", "s", " ", "t", "o",
      "d", "a", "y", " ", "-", " ", "W", "i", "r", "e", "d", " ", "N", "e", "w", "s">>

LineShort ==
    <<"s", "h", "o", "r", "t", " ", "o", "n", "e", ".">>

LineBlank ==
    <<" ", " ">>

LinePool ==
    {LineNumbered, LineSourced, LineDated, LineBulletOnly, LineBullet, LineShort,
     LineBlank}

\* lines.join('\n')
RECURSIVE JoinLines(_)
JoinLines(lines) ==
    IF Len(lines) = 0 THEN <<>>
    ELSE IF Len(lines) = 1 THEN lines[1]
    ELSE lines[1] \o <<"\n">> \o JoinLines(Tail(lines))

Fill(n) == [i \in 1..n |-> "a"]

Pads == { <<>>, <<" ">>, <<"\n", " ">> }

\* texts of about FallbackMaxLen characters without any title line
LongTexts ==
    {l \o Fill(n) \o r :
        l \in Pads, r \in Pads, n \in (FallbackMaxLen - 1)..(FallbackMaxLen + 1)}

\* a bullet without a title, a numbered title, and lines of text after each
MixedText ==
    JoinLines(<<LineBulletOnly, LineDated, LineNumbered, LineDated, LineShort,
                LineDated>>)

ParseContents ==
    {JoinLines(ls) : ls \in SeqsUpTo(LinePool, MaxLines)}
    \cup {NumberedList(k) : k \in 0..MaxItems}
    \cup LongTexts
    \cup {StormText, ProseText, BulletText, MixedText}

InitParse ==
    /\ perplexityApiKey = "pplx-key"
    /\ newsApiKey = ""
    /\ Idle
    /\ CategoryIdle
    /\ ConcIdle
    /\ ChatIdle
    /\ now \in {0, MaxTime}
    /\ content \in ParseContents
    /\ articles = <<>>
    /\ parsed = FALSE

Parse ==
    /\ ~parsed
    /\ articles' = parseNewsResponse(content, now)
    /\ parsed' = TRUE
    /\ UNCHANGED <<serviceVars, callVars, content, now, categoryVars, otherVars>>

NextParse == Parse

SpecParse == InitParse /\ [][NextParse]_vars

(***************************************************************************)
(* The claims.                                                             *)
(***************************************************************************)
Returned == latestNews.state = "fulfilled"

Items == latestNews.value.articles

\* the word w occurs somewhere in s
Contains(s, w) == \E p \in 1..Len(s) : SubSeq(s, p, p + Len(w) - 1) = w

PlaceholderSources == {MockSource1, MockSource2}

\* C1: the NewsResult returned by getLatestNews holds at most `limit` items,
\* whichever path produced them.
C1_ItemsWithinLimit == Returned => Len(Items) <= limit

\* C2: getLatestNews never raises for a provider failure: it is never rejected,
\* it waits only while a provider request is in flight, and what it returns
\* carries the caller's query and the time of the return as its timestamp.
C2_NeverRaises ==
    /\ latestNews.state # "rejected"
    /\ latestNews.state = "pending" => inflight # {}
    /\ Returned =>
          /\ latestNews.value.query = query
          /\ latestNews.value.timestamp = toISOString(now)

\* both providers failed, one by a malformed payload and one by its status
C2_Witness ==
    /\ Returned
    /\ perplexityCall.state = "rejected"
    /\ perplexityCall.reason = "TypeError"
    /\ newsApiCall.state = "rejected"
    /\ newsApiCall.reason = "Status500"

\* C3: within one call at most one request goes to each provider, the NewsAPI
\* request is sent only after the Perplexity attempt has failed, the two are never
\* in flight together, and after a provider succeeds nothing more is sent and its
\* result is the one returned.
C3_OrderedChain ==
    /\ Cardinality(SentTo("perplexity")) <= 1
    /\ Cardinality(SentTo("newsapi")) <= 1
    /\ Cardinality(inflight) <= 1
    /\ SentTo("newsapi") # {} =>
          /\ perplexityCall.state = "rejected"
          /\ "perplexity" \notin inflight
          /\ \A i \in SentTo("perplexity"), j \in SentTo("newsapi") : i < j
    /\ perplexityCall.state = "fulfilled" =>
          /\ SentTo("newsapi") = {}
          /\ newsApiCall.state = "none"
          /\ inflight = {}
          /\ latestNews = Fulfilled(perplexityCall.value)
    /\ newsApiCall.state = "fulfilled" =>
          /\ Len(requests) = 2
          /\ inflight = {}
          /\ latestNews = Fulfilled(newsApiCall.value)

\* the fallback provider answered after the first one failed
C3_Witness ==
    /\ newsApiCall.state = "fulfilled"
    /\ perplexityCall.state = "rejected"
    /\ Len(requests) = 2

\* C4: with the Perplexity credential missing (''), getLatestNews sends no
\* request to Perplexity.
C4_NoRequestWithoutKey == perplexityApiKey = "" => SentTo("perplexity") = {}

\* C5: with the NewsAPI credential missing no request is ever sent to NewsAPI,
\* and a call whose Perplexity attempt failed has at once ended in the
\* placeholder result.
C5_MissingNewsApiKey ==
    newsApiKey = "" =>
        /\ SentTo("newsapi") = {}
        /\ "newsapi" \notin inflight
        /\ perplexityCall.state = "rejected" =>
              /\ newsApiCall = Rejected(ErrKeyMissing)
              /\ Returned
              /\ Len(Items) >= 1
              /\ \A i \in 1..Len(Items) : Items[i].source \in PlaceholderSources

\* Perplexity failed and the service has no NewsAPI key
C5_Witness ==
    /\ newsApiKey = ""
    /\ perplexityCall.state = "rejected"
    /\ Returned

\* C6: when both provider attempts fail, getLatestNews returns exactly
\* min(limit, 2) placeholder items, each with source "System" or "News AI Bot"
\* and publishedAt the time of the call (the clock when the placeholder is made,
\* which is when the call returns), and the result's query is the one passed in.
C6_Placeholder ==
    (perplexityCall.state = "rejected" /\ newsApiCall.state = "rejected") =>
        /\ Returned
        /\ Len(Items) = (IF limit < 2 THEN limit ELSE 2)
        /\ \A i \in 1..Len(Items) :
              /\ Items[i].source \in PlaceholderSources
              /\ Items[i].publishedAt = toISOString(now)
        /\ calledAt <= now
        /\ latestNews.value.query = query

\* both providers failed on a call that asked for one item, after time passed
C6_Witness ==
    /\ perplexityCall.state = "rejected"
    /\ newsApiCall.state = "rejected"
    /\ newsApiCall.reason \in TransportErrors
    /\ limit = 1
    /\ calledAt < now
    /\ Returned

\* C7: with only the NewsAPI credential configured and NewsAPI answering, the
\* items returned are those of the NewsAPI response, one per article and in
\* order, with title, description, url, source name and publishedAt copied.
C7_OnlyAlternate ==
    (/\ perplexityApiKey = ""
     /\ newsApiKey # ""
     /\ Returned
     /\ newsApiCall.state # "rejected") =>
        /\ newsApiCall.state = "fulfilled"
        /\ Len(Items) = Len(newsApiResponse.articles)
        /\ \A i \in 1..Len(Items) :
              /\ Items[i].title = newsApiResponse.articles[i].title
              /\ Items[i].summary = newsApiResponse.articles[i].description
              /\ Items[i].url = newsApiResponse.articles[i].url
              /\ Items[i].source = newsApiResponse.articles[i].sourceName
              /\ Items[i].publishedAt = newsApiResponse.articles[i].publishedAt

StormTitle ==
    <<"S", "t", "o", "r", "m", " ", "H", "i", "t", "s", " ", "C", "i", "t", "y">>

StormSource ==
    <<"L", "o", "c", "a", "l", " ", "N", "e", "w", "s">>

HeavyRain ==
    <<"H", "e", "a", "v", "y", " ", "r", "a", "i", "n">>

MarketTitle ==
    <<"M", "a", "r", "k", "e", "t", " ", "R", "a", "l", "l", "y">>

StocksRose ==
    <<"S", "t", "o", "c", "k", "s", " ", "r", "o", "s", "e">>

\* C8: parsing the four-line storm text yields exactly two items: "Storm Hits
\* City" from "Local News" with a summary containing "Heavy rain", then "Market
\* Rally" with publishedAt set and a summary containing "Stocks rose".
C8_StormExample ==
    (parsed /\ content = StormText) =>
        /\ Len(articles) = 2
        /\ articles[1].title = StormTitle
        /\ articles[1].source = StormSource
        /\ Contains(articles[1].summary, HeavyRain)
        /\ articles[2].title = MarketTitle
        /\ articles[2].publishedAt # Undefined
        /\ Contains(articles[2].summary, StocksRose)

\* C9: a text from which no item is parsed yields exactly one item, "Latest News
\* Summary" with publishedAt = now, whose summary is the first 500 characters of
\* the text, followed by "..." when and only when characters were cut off.  (Read
\* in the code's favour: the text is taken after trim, and a blank text is not
\* counted as non-empty.)
C9_FallbackItem ==
    (parsed /\ Trim(content) # <<>> /\ ParsedArticles(content, now) = <<>>) =>
        /\ Len(articles) = 1
        /\ articles[1].title = FallbackTitle
        /\ articles[1].publishedAt = toISOString(now)
        /\ articles[1].summary =
              IF Len(Trim(content)) > 500
              THEN SubSeq(Trim(content), 1, 500) \o Ellipsis
              ELSE Trim(content)

\* C10: parseNewsResponse returns at most 5 items for every text, and when more
\* than 5 are parsed the first 5 in input order are kept.
C10_AtMostFive ==
    parsed =>
        /\ Len(articles) <= 5
        /\ \A k \in 6..MaxItems :
              content = NumberedList(k) =>
                  /\ Len(articles) = 5
                  /\ \A i \in 1..5 : articles[i].title = ItemTitle(i)

\* a numbered list of six stories was parsed
C10_Witness ==
    /\ parsed
    /\ content = NumberedList(6)
    /\ Len(articles) = 5

BusinessLabel ==
    <<"b", "u", "s", "i", "n", "e", "s", "s">>

BusinessQuery ==
    <<"l", "a", "t", "e", "s", "t", " ", "b", "u", "s", "i", "n", "e", "s", "s", " ",
      "a", "n", "d", " ", "f", "i", "n", "a", "n", "c", "e", " ", "n", "e", "w", "s",
      " ", "t", "o", "d", "a", "y">>

PoliticsLabel ==
    <<"p", "o", "l", "i", "t", "i", "c", "s">>

PoliticsQuery ==
    <<"l", "a", "t", "e", "s", "t", " ", "p", "o", "l", "i", "t", "i", "c", "a", "l",
      " ", "n", "e", "w", "s", " ", "t", "o", "d", "a", "y">>

RegularLabels ==
    { <<"t", "e", "c", "h", "n", "o", "l", "o", "g", "y">>,
      <<"s", "p", "o", "r", "t", "s">>,
      <<"w", "o", "r", "l", "d">>,
      <<"e", "n", "t", "e", "r", "t", "a", "i", "n", "m", "e", "n", "t">> }

\* C11 as stated: getNewsByCategory(category, limit) calls getLatestNews once
\* with the query "latest <category> news today" and the same limit for every
\* label, returns that call's result and is never rejected.
C11_TemplateForEveryLabel ==
    newsByCategory.state # "none" =>
        /\ query = LatestWord \o category \o NewsTodayWords
        /\ limit = categoryLimit
        /\ Cardinality(SentTo("perplexity")) = 1
        /\ newsByCategory.state # "rejected"
        /\ (newsByCategory.state = "fulfilled" => newsByCategory = latestNews)

\* C11 amended: getNewsByCategory(category, limit) calls getLatestNews once with
\* the same limit and returns that call's result, never rejected; the query is
\* the table's canned text for a label that is, in lower case, one of the eight
\* of the table (the template text in lower case for technology, sports, world
\* and entertainment, a text of its own for business, health, science and
\* politics) and "latest <category> news today", with the label as given, for
\* every other label that is not a key inherited from Object.prototype.
C11_CategoryDelegation ==
    newsByCategory.state # "none" =>
        LET key    == toLowerCase(category)
            canned == {e \in categoryQueries : e.key = key}
        IN  /\ canned # {} => \E e \in canned : query = e.query
            /\ key \in RegularLabels =>
                   query = LatestWord \o key \o NewsTodayWords
            /\ key = BusinessLabel => query = BusinessQuery
            /\ key = PoliticsLabel => query = PoliticsQuery
            /\ canned = {} /\ key \notin InheritedKeys =>
                   query = LatestWord \o category \o NewsTodayWords
            /\ limit = categoryLimit
            /\ Cardinality(SentTo("perplexity")) = 1
            /\ latestNews.state # "none"
            /\ newsByCategory.state # "rejected"
            /\ (newsByCategory.state = "fulfilled" => newsByCategory = latestNews)

\* the label "Business" was answered with the result of the canned business query
C11_Witness ==
    /\ newsByCategory.state = "fulfilled"
    /\ toLowerCase(category) = BusinessLabel
    /\ category # BusinessLabel
    /\ query = BusinessQuery
    /\ newsByCategory = latestNews

\* the error err is carried by an error record of the log
Logged(err) ==
    \E i \in 1..Len(log) : log[i].level = "error" /\ err \in Range(log[i].errors)

\* C12: at every moment, and so when getLatestNews returns, each provider
\* attempt that has failed (a Perplexity request error, a NewsAPI request error,
\* the missing NewsAPI key) is carried by an error record of the log, and the
\* promise of getLatestNews is not rejected with it.
C12_FailuresLogged ==
    /\ perplexityCall.state = "rejected" => Logged(perplexityCall.reason)
    /\ newsApiCall.state = "rejected" => Logged(newsApiCall.reason)
    /\ latestNews.state # "rejected"

\* both attempts failed, the second on a request error, and the call returned
C12_Witness ==
    /\ Returned
    /\ perplexityCall.state = "rejected"
    /\ newsApiCall.state = "rejected"
    /\ newsApiCall.reason \in TransportErrors
    /\ Logged(perplexityCall.reason)
    /\ Logged(newsApiCall.reason)

\* what one call of getLatestNews(q, l) returns at time t on a service whose
\* NewsAPI key is newsKey, given what its own two requests were answered
ResultOf(q, l, t, newsKey, pData, pErr, nData, nErr) ==
    IF pErr = "none" /\ pData.choices # "absent"
    THEN NewsResponse(
             parseNewsResponse(IF Truthy(pData.content) THEN pData.content
                               ELSE <<>>, t),
             q, toISOString(t))
    ELSE IF newsKey # "" /\ nErr = "none" /\ nData.hasArticles
         THEN NewsResponse(MapArticles(nData.articles), q, toISOString(t))
         ELSE getMockNews(q, l, t)

CallsIndependent ==
    \A c \in DOMAIN calls :
        calls[c].pc = "done" =>
            /\ calls[c].latestNews.state = "fulfilled"
            /\ calls[c].latestNews.value =
                   ResultOf(calls[c].query, calls[c].limit, now, newsApiKey,
                            calls[c].perplexityResponse, calls[c].perplexityError,
                            calls[c].newsApiResponse, calls[c].newsApiError)

\* C13: under every interleaving of the requests and responses of concurrent
\* getLatestNews calls, the result of each call (articles and query) is a
\* function of its own arguments and of the answers to its own requests, and
\* no step changes perplexityApiKey or newsApiKey.
C13_Independent ==
    /\ []CallsIndependent
    /\ [][perplexityApiKey' = perplexityApiKey /\ newsApiKey' = newsApiKey]_vars

\* a call has returned articles for its own query while another call, with a
\* different query, is waiting for NewsAPI after its Perplexity request failed
C13_Witness ==
    \E c, d \in DOMAIN calls :
        /\ calls[c].pc = "done"
        /\ calls[d].pc = "newsapi"
        /\ calls[c].query # calls[d].query
        /\ calls[c].latestNews.value.query = calls[c].query
        /\ Len(calls[c].latestNews.value.articles) > 0

\* C14: every article parseNewsResponse returns, for every input text, has a
\* non-empty title and a non-empty summary; a title line that is only a marker
\* (its cleaned title is empty) yields no article of its own.
C14_TitleAndSummary ==
    parsed =>
        \A i \in 1..Len(articles) :
            /\ Truthy(articles[i].title)
            /\ Truthy(articles[i].summary)

\* a bullet without a title, then a line of text: the one article returned is
\* the fallback article, with the default title and the text as summary
C14_Witness ==
    /\ parsed
    /\ content = JoinLines(<<LineBulletOnly, LineDated>>)
    /\ looksLikeTitle(Trim(LineBulletOnly))
    /\ cleanTitle(Trim(LineBulletOnly)) = <<>>
    /\ Len(articles) = 1
    /\ articles[1].title = FallbackTitle
    /\ Truthy(articles[1].summary)

\* the non-blank lines of the text, trimmed
TrimmedLines(text) ==
    LET ls == NonEmptyLines(text) IN [i \in 1..Len(ls) |-> Trim(ls[i])]

TitleLines(ls) == {i \in 1..Len(ls) : looksLikeTitle(ls[i])}

\* the last line before the title line that follows title line i
SegmentEnd(ls, i) ==
    LET later == {j \in TitleLines(ls) : j > i}
    IN  IF later = {} THEN Len(ls) ELSE SetMin(later) - 1

\* the lines between title line i and the next title line that are longer
\* than 20 characters
SummaryLines(ls, i) ==
    SelectSeq(SubSeq(ls, i + 1, SegmentEnd(ls, i)), LAMBDA l : Len(l) > 20)

RECURSIVE JoinSpace(_)
JoinSpace(ls) ==
    IF Len(ls) = 0 THEN <<>>
    ELSE IF Len(ls) = 1 THEN ls[1]
    ELSE ls[1] \o <<" ">> \o JoinSpace(Tail(ls))

\* the items of the title lines i, i + 1, ... in the order of those lines: a
\* title line gives an item when its cleaned title and its summary are not empty
RECURSIVE ItemsFrom(_, _, _)
ItemsFrom(ls, i, t) ==
    IF i > Len(ls) THEN <<>>
    ELSE (IF /\ i \in TitleLines(ls)
             /\ cleanTitle(ls[i]) # <<>>
             /\ SummaryLines(ls, i) # <<>>
          THEN << NewsArticle(cleanTitle(ls[i]), JoinSpace(SummaryLines(ls, i)),
                              Undefined, extractSource(ls[i]),
                              extractDate(ls[i], t)) >>
          ELSE <<>>)
         \o ItemsFrom(ls, i + 1, t)

\* C15: the loop of parseNewsResponse, with its one accumulator, yields exactly
\* one item per title line that has a title and collected a summary, in the
\* order of the title lines: the item of a title line is appended when the next
\* title line or the end of the text is reached if and only if both are
\* non-empty; its summary is the space-joined lines longer than 20 characters
\* that follow the title line; every other line is dropped. The parsed items
\* are never more than the title lines, and when there are any, the first five
\* of them are what parseNewsResponse returns.
C15_Accumulator ==
    parsed =>
        LET ls    == TrimmedLines(content)
            items == ItemsFrom(ls, 1, now)
        IN  /\ ParsedArticles(content, now) = items
            /\ Len(items) <= Cardinality(TitleLines(ls))
            /\ items # <<>> => articles = SubSeq(items, 1, SetMin({5, Len(items)}))

\* a bullet without a title, whose text line is dropped, then a numbered title
\* followed by two lines that are joined into its summary
C15_Witness ==
    /\ parsed
    /\ content = MixedText
    /\ Cardinality(TitleLines(TrimmedLines(content))) = 2
    /\ Len(articles) = 1
    /\ articles[1].title = cleanTitle(LineNumbered)
    /\ articles[1].summary = LineDated \o <<" ">> \o LineDated

\* the completion text of the Perplexity response: content || ''
CompletionText ==
    IF Truthy(perplexityResponse.content) THEN perplexityResponse.content ELSE <<>>

\* a Perplexity response has arrived whose completion text is empty or blank
BlankCompletion ==
    /\ perplexityResponse.choices \in {"one", "empty"}
    /\ Trim(CompletionText) = <<>>

\* C16: a Perplexity response that arrives with empty or whitespace-only
\* completion text is a success: getLatestNews returns a result without
\* articles for the query, NewsAPI is not asked and no mock news is made; and
\* NewsAPI is tried only after the Perplexity attempt has thrown.
C16_EmptyCompletionIsSuccess ==
    /\ BlankCompletion =>
           /\ perplexityCall.state = "fulfilled"
           /\ Returned
           /\ Items = <<>>
           /\ latestNews.value.query = query
           /\ newsApiCall.state = "none"
           /\ SentTo("newsapi") = {}
    /\ newsApiCall.state # "none" => perplexityCall.state = "rejected"

\* the completion was white space only and the call has returned
C16_Witness ==
    /\ perplexityResponse.choices = "one"
    /\ perplexityResponse.content = <<" ", "\n">>
    /\ newsApiKey # ""
    /\ Returned
    /\ Items = <<>>

\* C17 as stated: a text message starts at most one news fetch; a message that
\* starts with "/" starts none from the free-text handler, a message that does
\* not start with "/" starts none from a command handler, and no message is
\* matched by two fetching handlers.
C17_AtMostOneFetch ==
    message # Undefined =>
        /\ Len(fetches) <= 1
        /\ startsWith(message, <<"/">>) =>
               \A i \in 1..Len(fetches) : fetches[i].handler # "message"
        /\ ~startsWith(message, <<"/">>) =>
               \A i \in 1..Len(fetches) : fetches[i].handler = "message"

====
